---- MODULE Spec2Model ----
(***************************************************************************)
(* A model of the deepview crawler (src/src/lib/crawler.ts): crawlDomain   *)
(* as a state machine whose steps are the stretches of code between two    *)
(* awaited network calls, and its helpers as operators on strings.         *)
(*                                                                         *)
(* Strings are sequences of one-character strings, so that the regular     *)
(* expressions of the code (trailing slash, www prefix, id sanitising)     *)
(* are computed character by character.  An optional field of a TypeScript *)
(* object is a sequence of length 0 (undefined) or 1 (the value).          *)
(***************************************************************************)
EXTENDS Integers, Sequences, FiniteSets, TLC

VARIABLES
    pc,           \* position of crawlDomain: "start", "sitemap", "seed", "loop", "body",
                  \* "done", "failed"
    domain,       \* parameter domain (a string)
    maxDepth,     \* parameter maxDepth
    rootUrl,      \* const rootUrl
    rootHost,     \* let rootHost (the working host)
    depthLimit,   \* const depthLimit
    pages,        \* const pages: Map<string, PageInfo>, in insertion order
    candidate,    \* fetchSitemapUrls: index of the next sitemap candidate
    urls,         \* fetchSitemapUrls: const urls: URL[]
    queue,        \* const queue: URL[]
    processed,    \* const processed: Set<string>
    current,      \* const current, while its response is being read
    res,          \* const res of the loop (url and status), while its body is being read
    result,       \* what crawlDomain returned or threw
    sitemapLog,   \* the requests issued by the running call of fetchSitemapUrls, with their outcomes
    fetchLog,     \* the page requests issued by the loop so far, with their outcomes
    skipped,      \* which continue and break statements the iteration just finished has
                  \* taken: in its link loop, a subset of {"host", "depth", "budget"};
                  \* before its request, {"deep"} or {"processed"}
    running,      \* which invocation of crawlDomain the variables above belong to: 1 or 2
    other,        \* the variables of the other invocation, when there are two
    projects,     \* db.ts: the rows of table projects, in insertion order
    domains       \* db.ts: the rows of table domains, in insertion order

vars == <<pc, domain, maxDepth, rootUrl, rootHost, depthLimit, pages, candidate,
          urls, queue, processed, current, res, result, sitemapLog, fetchLog, skipped,
          running, other, projects, domains>>

(***************************************************************************)
(* Program constants.                                                      *)
(***************************************************************************)
MAX_DEPTH == 5
MAX_PAGES == 80

(***************************************************************************)
(* Optional values and small string helpers.                               *)
(***************************************************************************)
None == <<>>
Some(x) == <<x>>

Min(a, b) == IF a <= b THEN a ELSE b
Max(a, b) == IF a >= b THEN a ELSE b

startsWith(s, p) == Len(p) <= Len(s) /\ SubSeq(s, 1, Len(p)) = p

DropFirst(s, n) == SubSeq(s, n + 1, Len(s))

\* index of the first character of s that is in set cs, or Len(s) + 1
RECURSIVE FirstIn(_, _, _)
FirstIn(s, cs, i) ==
    IF i > Len(s) THEN Len(s) + 1
    ELSE IF s[i] \in cs THEN i
    ELSE FirstIn(s, cs, i + 1)

\* index of the last character of s that is not in set cs, or 0
RECURSIVE LastNotIn(_, _, _)
LastNotIn(s, cs, i) ==
    IF i = 0 THEN 0
    ELSE IF s[i] \notin cs THEN i
    ELSE LastNotIn(s, cs, i - 1)

Space == " "

\* String.prototype.trim
trim(s) ==
    LET last == LastNotIn(s, {Space}, Len(s))
        RECURSIVE firstNot(_)
        firstNot(i) == IF i > Len(s) \/ s[i] # Space THEN i ELSE firstNot(i + 1)
    IN  IF last = 0 THEN <<>> ELSE SubSeq(s, firstNot(1), last)

LowerLetters ==
    <<"a", "b", "c", "d", "e", "f", "g", "h", "i", "j", "k", "l", "m",
      "n", "o", "p", "q", "r", "s", "t", "u", "v", "w", "x", "y", "z">>
UpperLetters ==
    <<"A", "B", "C", "D", "E", "F", "G", "H", "I", "J", "K", "L", "M",
      "N", "O", "P", "Q", "R", "S", "T", "U", "V", "W", "X", "Y", "Z">>

Range(f) == {f[i] : i \in DOMAIN f}

UpperCase == Range(UpperLetters)
LowerMap ==
    [c \in UpperCase |-> LowerLetters[CHOOSE i \in DOMAIN UpperLetters : UpperLetters[i] = c]]
LowerOf(c) == IF c \in UpperCase THEN LowerMap[c] ELSE c

\* String.prototype.toLowerCase
toLowerCase(s) == [i \in 1..Len(s) |-> LowerOf(s[i])]

Letters == Range(LowerLetters)
Digits == {"0", "1", "2", "3", "4", "5", "6", "7", "8", "9"}

(***************************************************************************)
(* The URL class, for the shapes of input the model draws:                 *)
(*   scheme "://" host [ "/" path ] [ "?" query ] [ "#" fragment ]         *)
(* with scheme http or https.  The host is lower-cased by the parser; a    *)
(* host that is empty or has a character outside the host alphabet makes   *)
(* the constructor throw, as does a string without a scheme.               *)
(***************************************************************************)
Https == <<"h", "t", "t", "p", "s", ":", "/", "/">>
Http == <<"h", "t", "t", "p", ":", "/", "/">>

HostChars == Letters \cup Digits \cup {".", "-"}

\* s begins with the scheme, in any case
hasScheme(s, scheme) ==
    Len(scheme) <= Len(s) /\ toLowerCase(SubSeq(s, 1, Len(scheme))) = scheme

\* new URL(s) throws
UrlThrows(s) ==
    LET rest == IF hasScheme(s, Https) THEN DropFirst(s, Len(Https))
                ELSE DropFirst(s, Len(Http))
        hostEnd == FirstIn(rest, {"/", "?", "#"}, 1)
        host == toLowerCase(SubSeq(rest, 1, hostEnd - 1))
    IN  \/ ~(hasScheme(s, Https) \/ hasScheme(s, Http))
        \/ host = <<>>
        \/ \E i \in 1..Len(host) : host[i] \notin HostChars

\* new URL(s), for a string it accepts
ParseUrl(s) ==
    LET isHttps == hasScheme(s, Https)
        rest == IF isHttps THEN DropFirst(s, Len(Https)) ELSE DropFirst(s, Len(Http))
        hostEnd == FirstIn(rest, {"/", "?", "#"}, 1)
        afterHost == DropFirst(rest, hostEnd - 1)
        pathEnd == FirstIn(afterHost, {"?", "#"}, 1)
        path == SubSeq(afterHost, 1, pathEnd - 1)
        afterPath == DropFirst(afterHost, pathEnd - 1)
        queryEnd == FirstIn(afterPath, {"#"}, 1)
    IN  [protocol |-> IF isHttps THEN "https:" ELSE "http:",
         hostname |-> toLowerCase(SubSeq(rest, 1, hostEnd - 1)),
         pathname |-> IF path = <<>> THEN <<"/">> ELSE path,
         search |-> SubSeq(afterPath, 1, queryEnd - 1),
         hash |-> DropFirst(afterPath, queryEnd - 1)]

\* URL.prototype.toString
UrlToString(u) ==
    (IF u.protocol = "https:" THEN Https ELSE Http)
        \o u.hostname \o u.pathname \o u.search \o u.hash

\* u.hash = ""; u.search = ""
ClearHashSearch(u) == [u EXCEPT !.hash = <<>>, !.search = <<>>]

(***************************************************************************)
(* normalizeDomain, crawler.ts 30-38.                                      *)
(***************************************************************************)
\* prefixedOf without the test for a scheme that is there already
prefixedAlways(input) == Https \o trim(input)

prefixedOf(input) ==
    LET trimmed == trim(input)
    IN  IF startsWith(trimmed, <<"h", "t", "t", "p">>) THEN trimmed ELSE Https \o trimmed

\* normalizeDomain rejecting the empty input only
normalizeDomainThrowsOnEmpty(input) == trim(input) = <<>>

normalizeDomainThrows(input) == UrlThrows(prefixedOf(input))

normalizeDomain(input) ==
    LET url == [ClearHashSearch(ParseUrl(prefixedOf(input))) EXCEPT !.pathname = <<"/">>]
        str == UrlToString(url)
    IN  \* .replace(/\/$/, "")
        IF str[Len(str)] = "/" THEN SubSeq(str, 1, Len(str) - 1) ELSE str

(***************************************************************************)
(* cleanPath, makeNodeId, pathSegments, parentPath, crawler.ts 40-59.      *)
(***************************************************************************)
\* pathname.replace(/\/$/, "") || "/"
cleanPathOf(pathname) ==
    LET stripped == IF pathname # <<>> /\ pathname[Len(pathname)] = "/"
                    THEN SubSeq(pathname, 1, Len(pathname) - 1)
                    ELSE pathname
    IN  IF stripped = <<>> THEN <<"/">> ELSE stripped

cleanPath(url) == cleanPathOf(url.pathname)

IdChars == Letters \cup UpperCase \cup Digits \cup {"-", "_"}

NodePrefix == <<"n", "o", "d", "e", "-">>
RootId == <<"r", "o", "o", "t">>

\* path.replace(/[^a-zA-Z0-9-_]/g, "-")
sanitize(path) == [i \in 1..Len(path) |-> IF path[i] \in IdChars THEN path[i] ELSE "-"]

\* makeNodeId without the special case of the root path
makeNodeIdNoRoot(path) == NodePrefix \o sanitize(path)

makeNodeId(path) ==
    IF path = <<"/">> THEN RootId
    ELSE NodePrefix \o (IF sanitize(path) = <<>> THEN RootId ELSE sanitize(path))

\* s.split("/")
RECURSIVE split(_)
split(s) ==
    LET i == FirstIn(s, {"/"}, 1)
    IN  IF i > Len(s) THEN <<s>>
        ELSE <<SubSeq(s, 1, i - 1)>> \o split(DropFirst(s, i))

\* path.replace(/^\//, "").split("/").filter(Boolean)
pathSegments(path) ==
    IF path = <<"/">> THEN <<>>
    ELSE SelectSeq(split(IF path # <<>> /\ path[1] = "/" THEN DropFirst(path, 1) ELSE path),
                   LAMBDA seg : seg # <<>>)

\* segs.join("/")
RECURSIVE join(_)
join(segs) ==
    IF segs = <<>> THEN <<>>
    ELSE IF Len(segs) = 1 THEN segs[1]
    ELSE segs[1] \o <<"/">> \o join(Tail(segs))

\* null is None
parentPath(path) ==
    LET segs == pathSegments(path)
    IN  IF Len(segs) = 0 THEN None
        ELSE IF Len(segs) = 1 THEN Some(<<"/">>)
        ELSE Some(<<"/">> \o join(SubSeq(segs, 1, Len(segs) - 1)))

(***************************************************************************)
(* stripWww, matchesHost, crawler.ts 61-69.                                *)
(***************************************************************************)
\* stripWww taking every leading "www." off, not the first alone
RECURSIVE stripWwwAll(_)
stripWwwAll(host) ==
    IF /\ Len(host) >= 4
       /\ host[1] \in {"w", "W"} /\ host[2] \in {"w", "W"} /\ host[3] \in {"w", "W"}
       /\ host[4] = "."
    THEN stripWwwAll(DropFirst(host, 4))
    ELSE host

\* host.replace(/^www\./i, "")
stripWww(host) ==
    IF /\ Len(host) >= 4
       /\ host[1] \in {"w", "W"} /\ host[2] \in {"w", "W"} /\ host[3] \in {"w", "W"}
       /\ host[4] = "."
    THEN DropFirst(host, 4)
    ELSE host

\* matchesHost taking every host below the root's for the root's
matchesHostSuffix(host, rHost) ==
    LET a == stripWww(toLowerCase(host))
        b == stripWww(toLowerCase(rHost))
    IN  Len(a) >= Len(b) /\ SubSeq(a, Len(a) - Len(b) + 1, Len(a)) = b

matchesHost(host, rHost) ==
    LET a == stripWww(toLowerCase(host))
        b == stripWww(toLowerCase(rHost))
    IN  a = b

(***************************************************************************)
(* The Map<string, PageInfo> of crawlDomain: a sequence of PageInfo        *)
(* records in insertion order, at most one per path.                       *)
(***************************************************************************)
\* the place of a key, or 0
indexOf(m, path) ==
    IF \E i \in 1..Len(m) : m[i].path = path
    THEN CHOOSE i \in 1..Len(m) : m[i].path = path
    ELSE 0

mapHas(m, path) == indexOf(m, path) # 0
mapGet(m, path) == m[indexOf(m, path)]
mapKeys(m) == [i \in 1..Len(m) |-> m[i].path]

\* Map.prototype.set: an existing key keeps its place
mapSet(m, info) ==
    LET i == indexOf(m, info.path)
    IN  IF i = 0 THEN Append(m, info) ELSE [m EXCEPT ![i] = info]

(***************************************************************************)
(* addPage, crawler.ts 117-128: the closure over pages and rootHost.       *)
(***************************************************************************)
\* addPage comparing the host names as they are, "www." and all
addPageExactHost(m, rHost, url, title) ==
    IF url.hostname # rHost THEN m
    ELSE LET path == cleanPath(url)
             has == mapHas(m, path)
             existing == mapGet(m, path)
         IN  mapSet(m, [path |-> path,
                        url |-> url,
                        title |-> IF title # None THEN title
                                  ELSE IF has THEN existing.title ELSE None,
                        statusCode |-> IF has THEN existing.statusCode ELSE None,
                        unreachable |-> IF has THEN existing.unreachable ELSE None])

addPage(m, rHost, url, title) ==
    IF ~matchesHost(url.hostname, rHost) THEN m
    ELSE LET path == cleanPath(url)
             has == mapHas(m, path)
             existing == mapGet(m, path)
         IN  mapSet(m, [path |-> path,
                        url |-> url,
                        title |-> IF title # None THEN title
                                  ELSE IF has THEN existing.title ELSE None,
                        statusCode |-> IF has THEN existing.statusCode ELSE None,
                        unreachable |-> IF has THEN existing.unreachable ELSE None])

\* sitemapUrls.forEach((url) => addPage(url))
RECURSIVE addPages(_, _, _)
addPages(m, rHost, us) ==
    IF us = <<>> \/ Len(m) < 0 THEN m
    ELSE IF Len(us) = 1 THEN addPage(m, rHost, us[1], None)
    ELSE LET half == Len(us) \div 2
         IN  addPages(addPages(m, rHost, SubSeq(us, 1, half)), rHost,
                      SubSeq(us, half + 1, Len(us)))

(***************************************************************************)
(* The site being crawled: what the requests of one crawl may return.      *)
(* Hosts, sitemap entries and hrefs are strings; the code parses them.     *)
(***************************************************************************)
HostE == <<"e", ".", "c">>
HostWww == <<"w", "w", "w", ".">> \o HostE
HostShop == <<"s", ".">> \o HostE

\* the domain arguments of the crawl specification: "e.c" and "e c"
DomainArgs == {HostE, <<"e", " ", "c">>}

\* the maxDepth arguments of the crawl specification
DepthArgs == {1, 2}

\* the hrefs a fetched page may carry
Hrefs ==
    { <<"/", "a", "/", "b">>,
      Https \o HostWww \o <<"/", "a", "-", "b", "/">>,
      <<"/", "a", "/", "b", "/", "c">>,
      Https \o HostShop \o <<"/", "x">> }

\* the most <a href> elements on a fetched page
MaxLinks == 2

RECURSIVE SeqsUpTo(_, _)
SeqsUpTo(S, n) ==
    IF n = 0 THEN {<<>>}
    ELSE LET shorter == SeqsUpTo(S, n - 1)
         IN  shorter \cup {Append(s, x) : s \in {t \in shorter : Len(t) = n - 1}, x \in S}

HrefLists == SeqsUpTo(Hrefs, MaxLinks)

\* the <title> of a fetched page, when it has one
Titles == {None, Some(<<"t">>)}

\* what $("title") may give on the page at cur: the home page may lack a title,
\* every other page of the site has one
TitlesOf(cur) == IF cur.pathname = <<"/">> THEN Titles ELSE {Some(<<"t">>)}

\* the status codes of the responses: one 2xx, two others
OkStatuses == {200}
NotOkStatuses == {404, 500}

\* Response.ok
isOk(status) == status >= 200 /\ status <= 299

\* n distinct same-host sitemap entries https://e.c/pNN
BulkLoc(n) == Https \o HostE \o <<"/", "p">> \o
    <<ToString(n \div 10), ToString(n % 10)>>

BulkLocs(n) == [i \in 1..n |-> BulkLoc(i)]

\* the <loc> texts of a sitemap document
SitemapBodies ==
    { <<Https \o HostE \o <<"/", "a", "/", "b", "/", "c">>>>,
      <<Https \o HostShop \o <<"/", "x">>, <<>>, <<"x">>>>,
      <<Https \o HostWww \o <<"/", "a", "/">>, Https \o HostE \o <<"/", "a", ".", "b">>>> }
    \cup {BulkLocs(MAX_PAGES - 2), BulkLocs(MAX_PAGES + 1)}

(***************************************************************************)
(* new URL(href, base), for an absolute href, a path-absolute href ("/a")  *)
(* and the empty href.                                                     *)
(***************************************************************************)
isAbsolute(href) == hasScheme(href, Https) \/ hasScheme(href, Http)

ResolveThrows(href, base) == isAbsolute(href) /\ UrlThrows(href)

Resolve(href, base) ==
    IF isAbsolute(href) THEN ParseUrl(href)
    ELSE IF href = <<>> THEN base
    ELSE ParseUrl(UrlToString([base EXCEPT !.pathname = <<>>, !.search = <<>>, !.hash = <<>>])
                  \o href)

\* crawler.ts 177-188: the links of a page, in document order
RECURSIVE extractLinks(_, _)
extractLinks(hrefs, cur) ==
    IF hrefs = <<>> THEN <<>>
    ELSE (IF ResolveThrows(Head(hrefs), cur) THEN <<>>
          ELSE <<ClearHashSearch(Resolve(Head(hrefs), cur))>>)
         \o extractLinks(Tail(hrefs), cur)

\* crawler.ts 83-96: the same-host entries of a sitemap document, in order
sitemapEntries(locs, root) ==
    LET kept == SelectSeq(locs, LAMBDA text :
                    LET loc == trim(text)
                    IN  /\ loc # <<>>
                        /\ ~UrlThrows(loc)
                        /\ matchesHost(ParseUrl(loc).hostname, root.hostname))
    IN  [i \in 1..Len(kept) |-> ClearHashSearch(ParseUrl(trim(kept[i])))]

\* crawler.ts 72: the sitemap candidates
SitemapXml == <<"/", "s", "i", "t", "e", "m", "a", "p", ".", "x", "m", "l">>
SitemapIndexXml ==
    <<"/", "s", "i", "t", "e", "m", "a", "p", "_", "i", "n", "d", "e", "x", ".", "x", "m", "l">>
candidates(root) == <<Resolve(SitemapXml, root), Resolve(SitemapIndexXml, root)>>

\* the link loop without its test of the link's depth
RECURSIVE registerLinksNoDepth(_, _, _, _, _)
registerLinksNoDepth(links, m, q, rHost, limit) ==
    IF links = <<>> THEN [pages |-> m, queue |-> q, skipped |-> {}]
    ELSE IF ~matchesHost(Head(links).hostname, rHost)
    THEN [registerLinksNoDepth(Tail(links), m, q, rHost, limit)
              EXCEPT !.skipped = @ \cup {"host"}]
    ELSE IF Len(m) >= MAX_PAGES
    THEN [pages |-> m, queue |-> q, skipped |-> {"budget"}]
    ELSE registerLinksNoDepth(Tail(links), addPage(m, rHost, Head(links), None),
                              Append(q, Head(links)), rHost, limit)

\* the link loop without its test of the budget
RECURSIVE registerLinksNoBudget(_, _, _, _, _)
registerLinksNoBudget(links, m, q, rHost, limit) ==
    IF links = <<>> THEN [pages |-> m, queue |-> q, skipped |-> {}]
    ELSE IF ~matchesHost(Head(links).hostname, rHost)
    THEN [registerLinksNoBudget(Tail(links), m, q, rHost, limit)
              EXCEPT !.skipped = @ \cup {"host"}]
    ELSE IF Len(pathSegments(cleanPath(Head(links)))) > limit
    THEN [registerLinksNoBudget(Tail(links), m, q, rHost, limit)
              EXCEPT !.skipped = @ \cup {"depth"}]
    ELSE registerLinksNoBudget(Tail(links), addPage(m, rHost, Head(links), None),
                               Append(q, Head(links)), rHost, limit)

\* crawler.ts 192-200: the link loop, on the registry m and the queue q; skipped
\* tells which of its continue and break statements were taken
RECURSIVE registerLinks(_, _, _, _, _)
registerLinks(links, m, q, rHost, limit) ==
    IF links = <<>> THEN [pages |-> m, queue |-> q, skipped |-> {}]
    ELSE LET link == Head(links)
             childPath == cleanPath(link)
             childDepth == Len(pathSegments(childPath))
         IN  IF ~matchesHost(link.hostname, rHost)
             THEN [registerLinks(Tail(links), m, q, rHost, limit)
                       EXCEPT !.skipped = @ \cup {"host"}]
             ELSE IF childDepth > limit
             THEN [registerLinks(Tail(links), m, q, rHost, limit)
                       EXCEPT !.skipped = @ \cup {"depth"}]
             ELSE IF Len(m) >= MAX_PAGES
             THEN [pages |-> m, queue |-> q, skipped |-> {"budget"}]
             ELSE registerLinks(Tail(links), addPage(m, rHost, link, None),
                                Append(q, link), rHost, limit)

(***************************************************************************)
(* crawlDomain, crawler.ts 106-299.                                        *)
(***************************************************************************)
\* one call of crawlDomain
InitOne ==
    /\ pc = "start"
    /\ domain \in DomainArgs
    /\ maxDepth \in DepthArgs
    /\ rootUrl = None
    /\ rootHost = None
    /\ depthLimit = 0
    /\ pages = <<>>
    /\ candidate = 1
    /\ urls = <<>>
    /\ queue = <<>>
    /\ processed = {}
    /\ current = None
    /\ res = None
    /\ result = None
    /\ sitemapLog = <<>>
    /\ fetchLog = <<>>
    /\ skipped = {}
    /\ projects = <<>>
    /\ domains = <<>>

Init ==
    /\ InitOne
    /\ running = 1
    /\ other = None

\* Math.floor, on the integers the model draws
floor(x) == x

\* depthLimitOf without the cap at MAX_DEPTH
depthLimitUncapped(md) == Max(1, floor(md))

\* crawler.ts 113
depthLimitOf(md) == Min(Max(1, floor(md)), MAX_DEPTH)

\* crawler.ts 110-131: normalisation, the depth limit, the root's registration
Start ==
    /\ pc = "start"
    /\ IF normalizeDomainThrows(domain)
       THEN /\ pc' = "failed"
            /\ result' = Some([kind |-> "error"])
            /\ UNCHANGED <<rootUrl, rootHost, depthLimit, pages>>
       ELSE LET root == ParseUrl(normalizeDomain(domain))
            IN  /\ pc' = "sitemap"
                /\ rootUrl' = root
                /\ rootHost' = root.hostname
                /\ depthLimit' = depthLimitOf(maxDepth)
                /\ pages' = addPage(<<>>, root.hostname, root, None)
                /\ UNCHANGED result
    /\ UNCHANGED <<domain, maxDepth, candidate, urls, queue, processed, current, res,
                   sitemapLog, fetchLog, skipped,
                   running, other, projects, domains>>

\* FetchSitemap without the try block: a rejected fetch rejects crawlDomain
FetchSitemapUncaught ==
    /\ pc = "sitemap"
    /\ \E outcome \in {"error", "notok"} :
          /\ sitemapLog' = Append(sitemapLog,
                 [url |-> candidates(rootUrl)[candidate], outcome |-> outcome])
          /\ IF outcome = "error"
             THEN pc' = "failed" /\ result' = Some([kind |-> "error"]) /\ UNCHANGED candidate
             ELSE IF candidate = Len(candidates(rootUrl))
             THEN pc' = "seed" /\ UNCHANGED <<candidate, result>>
             ELSE candidate' = candidate + 1 /\ UNCHANGED <<pc, result>>
    /\ UNCHANGED <<domain, maxDepth, rootUrl, rootHost, depthLimit, pages, urls, queue,
                   processed, current, res, fetchLog, skipped,
                   running, other, projects, domains>>

\* crawler.ts 75-101: one sitemap candidate is requested: fetch rejects ("error"), the
\* response is not 2xx ("notok"), or it is 2xx and its document is read ("ok")
FetchSitemap ==
    /\ pc = "sitemap"
    /\ \E outcome \in {"error", "notok", "ok"} :
       \E body \in (IF outcome = "ok" THEN SitemapBodies ELSE {<<>>}) :
          LET found == IF outcome = "ok" THEN urls \o sitemapEntries(body, rootUrl) ELSE urls
              stop == outcome = "ok" /\ found # <<>>
          IN  /\ urls' = found
              /\ sitemapLog' = Append(sitemapLog,
                     [url |-> candidates(rootUrl)[candidate], outcome |-> outcome])
              /\ IF stop \/ candidate = Len(candidates(rootUrl))
                 THEN pc' = "seed" /\ UNCHANGED candidate
                 ELSE candidate' = candidate + 1 /\ UNCHANGED pc
    /\ UNCHANGED <<domain, maxDepth, rootUrl, rootHost, depthLimit, pages, queue,
                   processed, current, res, result, fetchLog, skipped,
                   running, other, projects, domains>>

\* crawler.ts 103, 134-139: fetchSitemapUrls returns the cut list (its frame is gone),
\* the seeds are registered and the queue is set up
SeedSitemap ==
    /\ pc = "seed"
    /\ LET sitemapUrls == SubSeq(urls, 1, Min(Len(urls), MAX_PAGES))
       IN  pages' = addPages(pages, rootHost, sitemapUrls)
    /\ queue' = <<rootUrl>>
    /\ processed' = {}
    /\ pc' = "loop"
    /\ candidate' = 1 /\ urls' = <<>> /\ sitemapLog' = <<>>
    /\ UNCHANGED <<domain, maxDepth, rootUrl, rootHost, depthLimit, current, res,
                   result, fetchLog, skipped,
                   running, other, projects, domains>>

\* what res.url may be after the request of cur.  The site answers every request
\* at the URL requested, except that the request of its home page may be redirected
\* to the www host or to another host, or carry no parseable URL.
FinalUrls(cur) ==
    IF cur.pathname # <<"/">> THEN {UrlToString(cur)}
    ELSE { UrlToString(cur),
           UrlToString([cur EXCEPT !.hostname = HostWww]),
           UrlToString([cur EXCEPT !.hostname = HostShop]),
           <<>> }

\* crawler.ts 165-172: the working host after a 2xx response
adoptHost(rHost, finalUrl) ==
    IF UrlThrows(finalUrl) THEN rHost
    ELSE IF matchesHost(ParseUrl(finalUrl).hostname, rHost) THEN ParseUrl(finalUrl).hostname
    ELSE rHost

\* markFailed dropping the entry of the failed page instead of marking it
markFailedDrops(m, path, status) == SelectSeq(m, LAMBDA info : info.path # path)

\* crawler.ts 157-163: a non-2xx response is recorded on the entry, when there is one
markFailed(m, path, status) ==
    IF mapHas(m, path)
    THEN mapSet(m, [mapGet(m, path) EXCEPT !.statusCode = Some(status),
                                            !.unreachable = Some(TRUE)])
    ELSE m

\* skipsUrl without the test of the processed set
skipsUrlDepthOnly(depth, limit, path, done) ==
    IF depth > limit THEN {"deep"} ELSE {}

\* crawler.ts 147-150: the continue statement taken for the URL dequeued, if any
skipsUrl(depth, limit, path, done) ==
    IF depth > limit THEN {"deep"}
    ELSE IF path \in done THEN {"processed"}
    ELSE {}

\* crawler.ts 141-172: the loop takes the next URL of the queue; unless it is too
\* deep or already processed it is requested, and the request ends in one of three
\* ways: fetch rejects ("error"), a non-2xx response ("notok"), a 2xx response ("ok"),
\* whose body is then awaited
CrawlStep ==
    /\ pc = "loop"
    /\ queue # <<>> /\ Len(pages) < MAX_PAGES
    /\ LET cur == Head(queue)
           path == cleanPath(cur)
           depth == Len(pathSegments(path))
           logged(kind, status) ==
               Append(fetchLog, [url |-> cur, path |-> path, kind |-> kind,
                                 status |-> status])
       IN  /\ queue' = Tail(queue)
           /\ skipped' = skipsUrl(depth, depthLimit, path, processed)
           /\ IF skipsUrl(depth, depthLimit, path, processed) # {}
              THEN UNCHANGED <<pc, rootHost, pages, processed, current, res, fetchLog>>
              ELSE /\ processed' = processed \cup {path}
                   /\ \/ /\ fetchLog' = logged("error", None)
                         /\ UNCHANGED <<pc, rootHost, pages, current, res>>
                      \/ \E status \in NotOkStatuses :
                         /\ fetchLog' = logged("notok", Some(status))
                         /\ pages' = markFailed(pages, path, status)
                         /\ UNCHANGED <<pc, rootHost, current, res>>
                      \/ \E status \in OkStatuses, finalUrl \in FinalUrls(cur) :
                         /\ fetchLog' = logged("ok", Some(status))
                         /\ rootHost' = adoptHost(rootHost, finalUrl)
                         /\ current' = Some(cur)
                         /\ res' = Some([url |-> finalUrl, status |-> status])
                         /\ pc' = "body"
                         /\ UNCHANGED pages
    /\ UNCHANGED <<domain, maxDepth, rootUrl, depthLimit, candidate, urls, result,
                   sitemapLog,
                   running, other, projects, domains>>

\* crawler.ts 174-203: the body of the 2xx response arrives, or reading it fails
\* ("bodyerror"); the entry of current gets the title, the links are registered and
\* queued
ReadBody ==
    /\ pc = "body"
    /\ \/ /\ fetchLog' = [fetchLog EXCEPT ![Len(fetchLog)].kind = "bodyerror"]
          /\ skipped' = {}
          /\ UNCHANGED <<pages, queue>>
       \/ \E title \in TitlesOf(current[1]), hrefs \in HrefLists :
             LET reg == registerLinks(extractLinks(hrefs, current[1]),
                            addPage(pages, rootHost, current[1], title),
                            queue, rootHost, depthLimit)
             IN  /\ pages' = reg.pages
                 /\ queue' = reg.queue
                 /\ skipped' = reg.skipped
                 /\ UNCHANGED fetchLog
    /\ current' = None
    /\ res' = None
    /\ pc' = "loop"
    /\ UNCHANGED <<domain, maxDepth, rootUrl, rootHost, depthLimit, candidate, urls,
                   processed, result, sitemapLog,
                   running, other, projects, domains>>

(***************************************************************************)
(* Reconciliation and assembly, crawler.ts 206-298.                        *)
(***************************************************************************)
\* parent.split("/").pop() || parent
lastSegmentOr(p) ==
    LET parts == split(p)
    IN  IF parts[Len(parts)] # <<>> THEN parts[Len(parts)] ELSE p

\* ensureFrom without the loop: only the first parent gets a placeholder
ensureFromOnce(m, parent, rHost, root) ==
    IF parent = None \/ mapHas(m, parent[1]) THEN m
    ELSE mapSet(m, [path |-> parent[1], url |-> Resolve(parent[1], root),
                    title |-> Some(lastSegmentOr(parent[1])),
                    statusCode |-> Some(404), unreachable |-> Some(TRUE)])

\* ensureFrom registering a missing parent the way addPage registers a URL: no
\* title, no status code, not marked
RECURSIVE ensureFromBare(_, _, _, _)
ensureFromBare(m, parent, rHost, root) ==
    IF parent = None THEN m
    ELSE LET pp == parent[1]
             bare == [path |-> pp, url |-> Resolve(pp, root), title |-> None,
                      statusCode |-> None, unreachable |-> None]
         IN  ensureFromBare(IF mapHas(m, pp) THEN m ELSE mapSet(m, bare),
                            parentPath(pp), rHost, root)

\* crawler.ts 208-223, from the first parent on
RECURSIVE ensureFrom(_, _, _, _)
ensureFrom(m, parent, rHost, root) ==
    IF parent = None THEN m
    ELSE LET pp == parent[1]
             placeholder ==
                 [path |-> pp,
                  url |-> Resolve(pp, root),
                  title |-> Some(IF pp = <<"/">> THEN rHost ELSE lastSegmentOr(pp)),
                  statusCode |-> Some(404),
                  unreachable |-> Some(TRUE)]
         IN  ensureFrom(IF mapHas(m, pp) THEN m ELSE mapSet(m, placeholder),
                        parentPath(pp), rHost, root)

ensureAncestors(m, p, rHost, root) == ensureFrom(m, parentPath(p), rHost, root)

\* crawler.ts 225: Array.from(pages.keys()).forEach((p) => ensureAncestors(p))
RECURSIVE ensureAll(_, _, _, _)
ensureAll(m, keys, rHost, root) ==
    IF keys = <<>> \/ Len(m) < 0 THEN m
    ELSE IF Len(keys) = 1 THEN ensureAncestors(m, keys[1], rHost, root)
    ELSE LET half == Len(keys) \div 2
         IN  ensureAll(ensureAll(m, SubSeq(keys, 1, half), rHost, root),
                       SubSeq(keys, half + 1, Len(keys)), rHost, root)

reconcile(m, rHost, root) == ensureAll(m, mapKeys(m), rHost, root)

NoLinksLabel ==
    <<"K", "e", "i", "n", "e", " ", "L", "i", "n", "k", "s", " ",
      "g", "e", "f", "u", "n", "d", "e", "n">>
EmptyId == NodePrefix \o <<"e", "m", "p", "t", "y">>
PageLabel == <<"P", "a", "g", "e">>
Ellipsis == "..."
LabelLimit == 40

\* crawler.ts 264-271
labelOf(info, root) ==
    LET segs == pathSegments(info.path)
        byPath == IF Len(segs) > 0 THEN segs[Len(segs)] ELSE root.hostname
        label == IF info.title # None /\ info.title[1] # <<>> THEN info.title[1]
                 ELSE IF byPath # <<>> THEN byPath
                 ELSE PageLabel
    IN  IF Len(label) > LabelLimit THEN Append(SubSeq(label, 1, LabelLimit), Ellipsis)
        ELSE label

\* crawler.ts 266-279
nodeOf(info, root) ==
    [id |-> makeNodeId(info.path),
     label |-> labelOf(info, root),
     path |-> info.path,
     isRoot |-> Some(Len(pathSegments(info.path)) = 0),
     statusCode |-> info.statusCode,
     unreachable |-> info.unreachable]

EdgePrefix == <<"e", "-">>

\* crawler.ts 281-291, for a path that has a parent
edgeOf(info) ==
    LET parentId == makeNodeId(parentPath(info.path)[1])
        nodeId == makeNodeId(info.path)
    IN  [id |-> EdgePrefix \o parentId \o <<"-">> \o nodeId,
         source |-> parentId,
         target |-> nodeId]

\* one edge per entry whose path has a parent, in the order of the entries
edgesOf(m) ==
    LET withParent == SelectSeq(m, LAMBDA info : parentPath(info.path) # None)
    IN  [i \in 1..Len(withParent) |-> edgeOf(withParent[i])]

\* crawler.ts 231-258: the graph of a registry of one path
rootOnlyGraph(root) ==
    [kind |-> "graph",
     domain |-> root.hostname,
     nodes |-> << [id |-> RootId, label |-> root.hostname, path |-> <<"/">>,
                   isRoot |-> Some(TRUE), statusCode |-> None, unreachable |-> None],
                  [id |-> EmptyId, label |-> NoLinksLabel, path |-> <<"/">>,
                   isRoot |-> None, statusCode |-> None, unreachable |-> None] >>,
     edges |-> << [id |-> EdgePrefix \o RootId \o <<"-", "e", "m", "p", "t", "y">>,
                   source |-> RootId, target |-> EmptyId] >>]

\* assemble without the branch of the registry of one path
assembleNoPlaceholder(m, rHost, root) ==
    [kind |-> "graph",
     domain |-> rHost,
     nodes |-> [i \in 1..Len(m) |-> nodeOf(m[i], root)],
     edges |-> edgesOf(m)]

\* crawler.ts 227-298
assemble(m, rHost, root) ==
    IF Len(m) = 1 THEN rootOnlyGraph(root)
    ELSE [kind |-> "graph",
          domain |-> rHost,
          nodes |-> [i \in 1..Len(m) |-> nodeOf(m[i], root)],
          edges |-> edgesOf(m)]

\* leavesLoop without the budget: the loop is left on an empty queue only
leavesLoopOnEmptyQueue(q, m) == q = <<>>

\* crawler.ts 141: the while condition is false
leavesLoop(q, m) == ~(q # <<>> /\ Len(m) < MAX_PAGES)

\* crawler.ts 141, 206-298: the loop is left, the registry reconciled, the graph returned
Assemble ==
    /\ pc = "loop"
    /\ leavesLoop(queue, pages)
    /\ pages' = reconcile(pages, rootHost, rootUrl)
    /\ result' = Some(assemble(pages', rootHost, rootUrl))
    /\ pc' = "done"
    /\ skipped' = {}
    /\ UNCHANGED <<domain, maxDepth, rootUrl, rootHost, depthLimit, candidate, urls,
                   queue, processed, current, res, sitemapLog, fetchLog,
                   running, other, projects, domains>>

Next == Start \/ FetchSitemap \/ SeedSitemap \/ CrawlStep \/ ReadBody \/ Assemble

Spec == Init /\ [][Next]_vars

(***************************************************************************)
(* Progress.  crawlDomain runs on from each of its positions: the code     *)
(* between two awaits runs to the next await, and a request that is        *)
(* awaited completes, with a response or an error.  Each position has a    *)
(* step that says where control goes from it and what becomes of the       *)
(* sitemap candidate and of the queue; every step of an action is a step   *)
(* of the position it starts from, and an action can be taken wherever its *)
(* guard holds, its assignments being total.                               *)
(***************************************************************************)
\* crawler.ts 110-131: normalizeDomain returns or throws
StartEnds == pc = "start" /\ pc' \in {"sitemap", "failed"}

\* crawler.ts 75-101: the request of a sitemap candidate completes; the loop over the
\* candidates goes on to the next one or ends
SitemapRequestEnds ==
    /\ pc = "sitemap"
    /\ \/ pc' = "seed" /\ candidate' = candidate
       \/ pc' = "sitemap" /\ candidate' = candidate + 1

\* crawler.ts 103, 134-139
SeedEnds == pc = "seed" /\ pc' = "loop"

\* crawler.ts 141-172, 206-298: the while condition is tested; an iteration takes a
\* URL off the queue and ends or awaits the body, or the loop is left and the graph
\* returned
LoopIterates ==
    /\ pc = "loop"
    /\ \/ /\ queue # <<>> /\ Len(pages) < MAX_PAGES
          /\ queue' = Tail(queue)
          /\ pc' \in {"loop", "body"}
       \/ /\ leavesLoop(queue, pages)
          /\ queue' = queue
          /\ pc' = "done"

\* crawler.ts 174-203: the body arrives, or reading it fails
BodyEnds == pc = "body" /\ pc' = "loop"

SpecFair ==
    /\ Init /\ [][Next]_vars
    /\ WF_pc(StartEnds)
    /\ WF_<<pc, candidate>>(SitemapRequestEnds)
    /\ WF_pc(SeedEnds)
    /\ WF_<<pc, queue>>(LoopIterates)
    /\ WF_pc(BodyEnds)

(***************************************************************************)
(* Two invocations of crawlDomain on one event loop.  Everything an         *)
(* invocation writes is declared inside crawlDomain (crawler.ts 110-139)    *)
(* or inside the function it awaits (crawler.ts 72-73), so each invocation  *)
(* has variables of its own; the module holds MAX_DEPTH and MAX_PAGES only. *)
(* The variables pc .. skipped are those of the invocation that runs; the   *)
(* event loop may pass control to the other one between any two steps.      *)
(***************************************************************************)
Frame ==
    [pc |-> pc, domain |-> domain, maxDepth |-> maxDepth, rootUrl |-> rootUrl,
     rootHost |-> rootHost, depthLimit |-> depthLimit, pages |-> pages,
     candidate |-> candidate, urls |-> urls, queue |-> queue, processed |-> processed,
     current |-> current, res |-> res, result |-> result, sitemapLog |-> sitemapLog,
     fetchLog |-> fetchLog, skipped |-> skipped]

\* the switch, were processed declared in the module instead of in crawlDomain
SwitchSharedProcessed ==
    /\ other # None
    /\ pc \in {"sitemap", "loop", "body", "done", "failed"}
    /\ running' = 3 - running
    /\ other' = Some(Frame)
    /\ pc' = other[1].pc /\ domain' = other[1].domain /\ maxDepth' = other[1].maxDepth
    /\ rootUrl' = other[1].rootUrl /\ rootHost' = other[1].rootHost
    /\ depthLimit' = other[1].depthLimit /\ pages' = other[1].pages
    /\ candidate' = other[1].candidate /\ urls' = other[1].urls
    /\ queue' = other[1].queue /\ processed' = processed
    /\ current' = other[1].current /\ res' = other[1].res /\ result' = other[1].result
    /\ sitemapLog' = other[1].sitemapLog /\ fetchLog' = other[1].fetchLog
    /\ skipped' = other[1].skipped
    /\ UNCHANGED <<projects, domains>>

\* the invocation that runs is suspended at an await (of a sitemap response, a page
\* response or a body) or has ended, and the other one goes on where it was
Switch ==
    /\ other # None
    /\ pc \in {"sitemap", "loop", "body", "done", "failed"}
    /\ running' = 3 - running
    /\ other' = Some(Frame)
    /\ pc' = other[1].pc /\ domain' = other[1].domain /\ maxDepth' = other[1].maxDepth
    /\ rootUrl' = other[1].rootUrl /\ rootHost' = other[1].rootHost
    /\ depthLimit' = other[1].depthLimit /\ pages' = other[1].pages
    /\ candidate' = other[1].candidate /\ urls' = other[1].urls
    /\ queue' = other[1].queue /\ processed' = other[1].processed
    /\ current' = other[1].current /\ res' = other[1].res /\ result' = other[1].result
    /\ sitemapLog' = other[1].sitemapLog /\ fetchLog' = other[1].fetchLog
    /\ skipped' = other[1].skipped
    /\ UNCHANGED <<projects, domains>>

\* the sites the two invocations crawl are small: no sitemap is served, requests are
\* answered (200 or 404) and not redirected, and the home page links to no other page
SmallSite ==
    /\ \A i \in 1..Len(sitemapLog') : sitemapLog'[i].outcome = "notok"
    /\ \A i \in 1..Len(fetchLog') :
           fetchLog'[i].kind \in {"ok", "notok"} /\ fetchLog'[i].status # Some(500)
    /\ res' # None => res'[1].url = UrlToString(current'[1])
    /\ Len(pages') <= 1
    /\ skipped' = {}

\* the second invocation has not started yet
InitPair ==
    /\ InitOne
    /\ running = 1
    /\ \E d \in DomainArgs, md \in DepthArgs :
          other = Some([pc |-> "start", domain |-> d, maxDepth |-> md, rootUrl |-> None,
                        rootHost |-> None, depthLimit |-> 0, pages |-> <<>>,
                        candidate |-> 1, urls |-> <<>>, queue |-> <<>>,
                        processed |-> {}, current |-> None, res |-> None,
                        result |-> None, sitemapLog |-> <<>>, fetchLog |-> <<>>,
                        skipped |-> {}])

NextPair ==
    \/ Start /\ SmallSite
    \/ FetchSitemap /\ SmallSite
    \/ SeedSitemap /\ SmallSite
    \/ CrawlStep /\ SmallSite
    \/ ReadBody /\ SmallSite
    \/ Assemble /\ SmallSite
    \/ Switch

SpecPair == InitPair /\ [][NextPair]_vars

(***************************************************************************)
(* normalizeDomain on its own: it is applied to an input, and then to what *)
(* it returned.  The inputs are a host, or a URL of it, written with or    *)
(* without scheme, path, query, fragment, capitals and surrounding blanks. *)
(***************************************************************************)
NormPads == {<<>>, <<" ">>}
NormSchemes == {<<>>, Https, Http}
NormHosts == {HostE, <<"E", ".", "C">>, HostWww, <<"e", " ", "c">>}
NormTails ==
    {<<>>, <<"/">>, <<"/", "a">>, <<"/", "a", "/">>, <<"?", "q">>, <<"#", "h">>,
     <<"/", "a", "?", "q", "#", "h">>}

NormInputs ==
    {lead \o scheme \o host \o tail \o trail :
        lead \in NormPads, scheme \in NormSchemes, host \in NormHosts,
        tail \in NormTails, trail \in NormPads}

InitNormalize ==
    /\ pc = "start"
    /\ domain \in NormInputs
    /\ maxDepth = 1
    /\ rootUrl = None /\ rootHost = None /\ depthLimit = 0
    /\ pages = <<>> /\ candidate = 1 /\ urls = <<>> /\ queue = <<>>
    /\ processed = {} /\ current = None /\ res = None /\ result = None
    /\ sitemapLog = <<>> /\ fetchLog = <<>> /\ skipped = {}
    /\ running = 1 /\ other = None
    /\ projects = <<>> /\ domains = <<>>

\* normalizeDomain(domain) returns or throws
Normalize ==
    /\ pc = "start"
    /\ IF normalizeDomainThrows(domain)
       THEN pc' = "failed" /\ result' = Some([kind |-> "error"])
       ELSE pc' = "normalized"
            /\ result' = Some([kind |-> "url", value |-> normalizeDomain(domain),
                               again |-> None])
    /\ UNCHANGED <<domain, maxDepth, rootUrl, rootHost, depthLimit, pages, candidate,
                   urls, queue, processed, current, res, sitemapLog, fetchLog, skipped,
                   running, other, projects, domains>>

\* normalizeDomain of the value returned: again is what it returns, None when it throws
NormalizeAgain ==
    /\ pc = "normalized"
    /\ pc' = "renormalized"
    /\ result' = Some([result[1] EXCEPT !.again =
                           IF normalizeDomainThrows(result[1].value) THEN None
                           ELSE Some(normalizeDomain(result[1].value))])
    /\ UNCHANGED <<domain, maxDepth, rootUrl, rootHost, depthLimit, pages, candidate,
                   urls, queue, processed, current, res, sitemapLog, fetchLog, skipped,
                   running, other, projects, domains>>

NextNormalize == Normalize \/ NormalizeAgain

SpecNormalize == InitNormalize /\ [][NextNormalize]_vars

(***************************************************************************)
(* matchesHost and the depth limit on their own: the limit is computed for *)
(* a maxDepth argument from below 1 to above MAX_DEPTH, then matchesHost   *)
(* is applied to two host names, written with and without "www.", another  *)
(* label, and capitals.                                                    *)
(***************************************************************************)
ExampleCom == <<"e", "x", "a", "m", "p", "l", "e", ".", "c", "o", "m">>
ExampleComCaps == <<"E", "x", "a", "m", "p", "l", "e", ".", "c", "o", "m">>

MatchPrefixes ==
    { <<>>, <<"w", "w", "w", ".">>, <<"W", "W", "W", ".">>, <<"s", "h", "o", "p", ".">>,
      <<"w", "w", "w", ".", "w", "w", "w", ".">> }
MatchBases == {ExampleCom, ExampleComCaps, HostE}
MatchHosts == {prefix \o base : prefix \in MatchPrefixes, base \in MatchBases}

\* how far below 1 and above MAX_DEPTH the maxDepth arguments go
DepthSpan == 3
DepthInputs == (1 - DepthSpan)..(MAX_DEPTH + DepthSpan)

\* domain and rootHost hold the two arguments of matchesHost
InitHelpers ==
    /\ pc = "start"
    /\ domain \in MatchHosts
    /\ rootHost \in MatchHosts
    /\ maxDepth \in DepthInputs
    /\ rootUrl = None /\ depthLimit = 0
    /\ pages = <<>> /\ candidate = 1 /\ urls = <<>> /\ queue = <<>>
    /\ processed = {} /\ current = None /\ res = None /\ result = None
    /\ sitemapLog = <<>> /\ fetchLog = <<>> /\ skipped = {}
    /\ running = 1 /\ other = None
    /\ projects = <<>> /\ domains = <<>>

\* crawler.ts 113: the depth limit of the maxDepth argument
ClampDepth ==
    /\ pc = "start"
    /\ pc' = "clamped"
    /\ depthLimit' = depthLimitOf(maxDepth)
    /\ UNCHANGED <<domain, maxDepth, rootUrl, rootHost, pages, candidate, urls, queue,
                   processed, current, res, result, sitemapLog, fetchLog, skipped,
                   running, other, projects, domains>>

\* matchesHost(domain, rootHost) returns
MatchHost ==
    /\ pc = "clamped"
    /\ pc' = "matched"
    /\ result' = Some([kind |-> "boolean", value |-> matchesHost(domain, rootHost)])
    /\ UNCHANGED <<domain, maxDepth, rootUrl, rootHost, depthLimit, pages, candidate,
                   urls, queue, processed, current, res, sitemapLog, fetchLog, skipped,
                   running, other, projects, domains>>

NextHelpers == ClampDepth \/ MatchHost

SpecHelpers == InitHelpers /\ [][NextHelpers]_vars

(***************************************************************************)
(* The tables projects and domains of db.ts, and the route handlers that   *)
(* write them: POST /api/projects, POST /api/crawl and                     *)
(* POST /api/projects/{slug}/crawl.  A handler runs from the parsed body   *)
(* to its call of ensureDomain without an await, so its reads and writes   *)
(* of the tables are one step; what it does afterwards (the crawl, the     *)
(* snapshot, the pages) writes neither table.  Of a row, the columns the   *)
(* handlers read are kept: id, name and slug of a project; id, projectId,  *)
(* hostname and isPrimary (an INTEGER, 0 or 1) of a domain.                *)
(***************************************************************************)
\* Boolean(x), of an INTEGER column
Boolean(x) == x # 0

DigitChars == <<"0", "1", "2", "3", "4", "5", "6", "7", "8", "9">>

\* `${counter}`
RECURSIVE numberToString(_)
numberToString(n) ==
    IF n < 10 THEN <<DigitChars[n + 1]>>
    ELSE numberToString(n \div 10) \o <<DigitChars[(n % 10) + 1]>>

SlugChars == Letters \cup Digits
Projekt == <<"p", "r", "o", "j", "e", "k", "t">>

\* .replace(/[^a-z0-9]+/g, "-"): acc is what the characters before s have become
RECURSIVE dashRuns(_, _)
dashRuns(s, acc) ==
    IF s = <<>> THEN acc
    ELSE IF Head(s) \in SlugChars THEN dashRuns(Tail(s), Append(acc, Head(s)))
    ELSE IF acc # <<>> /\ acc[Len(acc)] = "-" THEN dashRuns(Tail(s), acc)
    ELSE dashRuns(Tail(s), Append(acc, "-"))

\* .replace(/^-+|-+$/g, ""), of a string whose dashes stand alone
stripDashes(s) ==
    LET tail == IF s # <<>> /\ s[1] = "-" THEN Tail(s) ELSE s
    IN  IF tail # <<>> /\ tail[Len(tail)] = "-" THEN SubSeq(tail, 1, Len(tail) - 1)
        ELSE tail

\* db.ts 278-283
slugify(value) ==
    LET slug == stripDashes(dashRuns(trim(toLowerCase(value)), <<>>))
    IN  IF slug = <<>> THEN Projekt ELSE slug

\* SELECT 1 FROM projects WHERE slug = ?
slugTaken(ps, slug) == \E i \in 1..Len(ps) : ps[i].slug = slug

\* db.ts 366-372: the while loop of createProject
RECURSIVE uniqueSlugFrom(_, _, _, _)
uniqueSlugFrom(ps, baseSlug, uniqueSlug, counter) ==
    IF slugTaken(ps, uniqueSlug)
    THEN uniqueSlugFrom(ps, baseSlug, baseSlug \o <<"-">> \o numberToString(counter),
                        counter + 1)
    ELSE uniqueSlug

\* db.ts 359-408: the tables after the call, and the project and domain returned;
\* customSlug is None for undefined
createProject(ps, ds, name, host, customSlug) ==
    LET wanted == IF customSlug # None /\ customSlug[1] # <<>> THEN customSlug[1]
                  ELSE IF name # <<>> THEN name
                  ELSE host
        baseSlug == slugify(wanted)
        project == [id |-> Len(ps) + 1, name |-> name,
                    slug |-> uniqueSlugFrom(ps, baseSlug, baseSlug, 1)]
        row == [id |-> Len(ds) + 1, projectId |-> project.id, hostname |-> host,
                isPrimary |-> 1]
    IN  [projects |-> Append(ps, project),
         domains |-> Append(ds, row),
         project |-> project,
         domain |-> [row EXCEPT !.isPrimary = TRUE]]

\* SELECT * FROM domains WHERE projectId = ? AND hostname = ? LIMIT 1: the index of
\* the row, or 0; UNIQUE(projectId, hostname) leaves one row at most
domainIndex(ds, projectId, hostname) ==
    IF \E i \in 1..Len(ds) : ds[i].projectId = projectId /\ ds[i].hostname = hostname
    THEN CHOOSE i \in 1..Len(ds) : ds[i].projectId = projectId /\ ds[i].hostname = hostname
    ELSE 0

\* db.ts 508-531: the table after the call, and the Domain returned
ensureDomain(ds, projectId, hostname, makePrimary) ==
    LET i == domainIndex(ds, projectId, hostname)
        row == [id |-> Len(ds) + 1, projectId |-> projectId, hostname |-> hostname,
                isPrimary |-> IF makePrimary THEN 1 ELSE 0]
    IN  IF i # 0
        THEN [domains |-> IF makePrimary /\ ~Boolean(ds[i].isPrimary)
                          THEN [ds EXCEPT ![i].isPrimary = 1]
                          ELSE ds,
              domain |-> [ds[i] EXCEPT !.isPrimary = Boolean(ds[i].isPrimary)]]
        ELSE [domains |-> Append(ds, row),
              domain |-> [row EXCEPT !.isPrimary = makePrimary]]

\* db.ts 546-588: the ids of the projects a row of the join may belong to; the query
\* has no ORDER BY, so LIMIT 1 may keep any of them
projectsWithHost(ds, hostname) ==
    {ds[i].projectId : i \in {j \in 1..Len(ds) : ds[j].hostname = hostname}}

\* SELECT * FROM projects WHERE slug = ? LIMIT 1: the index of the row, or 0
projectIndex(ps, slug) ==
    IF slugTaken(ps, slug) THEN CHOOSE i \in 1..Len(ps) : ps[i].slug = slug ELSE 0

\* the characters of a host name in the order of their bytes
CharOrder == <<"-", ".">> \o DigitChars \o LowerLetters
rank(c) == CHOOSE i \in DOMAIN CharOrder : CharOrder[i] = c

\* a sorts before b under hostname ASC
RECURSIVE precedes(_, _)
precedes(a, b) ==
    IF b = <<>> THEN FALSE
    ELSE IF a = <<>> THEN TRUE
    ELSE IF Head(a) = Head(b) THEN precedes(Tail(a), Tail(b))
    ELSE rank(Head(a)) < rank(Head(b))

\* projectData.domains.find((d) => d.isPrimary)?.hostname, of the rows ordered by
\* isPrimary DESC, hostname ASC (db.ts 460-462); None for undefined
primaryHostname(ds, projectId) ==
    LET primaries == {i \in 1..Len(ds) :
                         ds[i].projectId = projectId /\ Boolean(ds[i].isPrimary)}
    IN  IF primaries = {} THEN None
        ELSE Some(ds[CHOOSE i \in primaries :
                         \A j \in primaries \ {i} :
                             precedes(ds[i].hostname, ds[j].hostname)].hostname)

\* new URL(normalizeDomain(domainInput)).hostname
hostnameOf(domainInput) == ParseUrl(normalizeDomain(domainInput)).hostname

\* how many projects the handlers create
MaxProjects == 2

\* the fields name, domain and slug of the request bodies, and the slug of the path
NameBodies == {<<"E", ".", "C">>, <<"S", "h", "o", "p", "!">>, <<" ">>}
DomainBodies == {HostE, HostShop, <<" ", "E", ".", "C">>, <<"e", " ", "c">>, <<" ">>}
SlugBodies == {None, Some(<<"e", "-", "c">>)}
OptionalDomainBodies == {None} \cup {Some(body) : body \in DomainBodies}
SlugParams == {<<"e", "-", "c">>, <<"s", "-", "e", "-", "c">>, <<"s", "h", "o", "p">>,
               <<"e", "-", "c", "-", "1">>, <<"x">>}

\* NextResponse.json({ error }, { status })
errorResponse(status) == Some([kind |-> "error", status |-> status])

InitRoutes ==
    /\ pc = "routes"
    /\ domain = <<>> /\ maxDepth = 1
    /\ rootUrl = None /\ rootHost = None /\ depthLimit = 0
    /\ pages = <<>> /\ candidate = 1 /\ urls = <<>> /\ queue = <<>>
    /\ processed = {} /\ current = None /\ res = None /\ result = None
    /\ sitemapLog = <<>> /\ fetchLog = <<>> /\ skipped = {}
    /\ running = 1 /\ other = None
    /\ projects = <<>> /\ domains = <<>>

\* POST /api/projects (api/projects/route.ts 12-38); result is the response
PostProjects ==
    /\ pc = "routes"
    /\ \E nameBody \in NameBodies, domainBody \in DomainBodies, slugBody \in SlugBodies :
          LET name == trim(nameBody)
              domainInput == trim(domainBody)
              slug == IF slugBody = None THEN None ELSE Some(trim(slugBody[1]))
          IN  IF name = <<>> \/ domainInput = <<>>
              THEN result' = errorResponse(400) /\ UNCHANGED <<projects, domains>>
              ELSE IF normalizeDomainThrows(domainInput)
              THEN result' = errorResponse(500) /\ UNCHANGED <<projects, domains>>
              ELSE /\ Len(projects) < MaxProjects
                   /\ LET created == createProject(projects, domains, name,
                                                   hostnameOf(domainInput), slug)
                      IN  /\ projects' = created.projects
                          /\ domains' = created.domains
                          /\ result' = Some([kind |-> "created",
                                             project |-> created.project,
                                             domain |-> created.domain])
    /\ UNCHANGED <<pc, domain, maxDepth, rootUrl, rootHost, depthLimit, pages, candidate,
                   urls, queue, processed, current, res, sitemapLog, fetchLog, skipped,
                   running, other>>

\* POST /api/crawl (api/crawl/route.ts 14-59), up to its call of crawlDomain; result
\* holds the project and the Domain that ensureDomain returned
PostCrawl ==
    /\ pc = "routes"
    /\ \E domainBody \in DomainBodies :
          LET domainInput == trim(domainBody)
          IN  IF domainInput = <<>>
              THEN result' = errorResponse(400) /\ UNCHANGED <<projects, domains>>
              ELSE IF normalizeDomainThrows(domainInput)
              THEN result' = errorResponse(500) /\ UNCHANGED <<projects, domains>>
              ELSE LET hostname == hostnameOf(domainInput)
                       owners == projectsWithHost(domains, hostname)
                   IN  IF owners = {}
                       THEN /\ Len(projects) < MaxProjects
                            /\ LET created == createProject(projects, domains, hostname,
                                                            hostname, None)
                                   ensured == ensureDomain(created.domains,
                                                           created.project.id,
                                                           hostname, TRUE)
                               IN  /\ projects' = created.projects
                                   /\ domains' = ensured.domains
                                   /\ result' = Some([kind |-> "ensured",
                                                      project |-> created.project.id,
                                                      domain |-> ensured.domain])
                       ELSE \E id \in owners :
                               LET ensured == ensureDomain(domains, id, hostname, TRUE)
                               IN  /\ domains' = ensured.domains
                                   /\ result' = Some([kind |-> "ensured",
                                                      project |-> id,
                                                      domain |-> ensured.domain])
                                   /\ UNCHANGED projects
    /\ UNCHANGED <<pc, domain, maxDepth, rootUrl, rootHost, depthLimit, pages, candidate,
                   urls, queue, processed, current, res, sitemapLog, fetchLog, skipped,
                   running, other>>

\* POST /api/projects/{slug}/crawl, up to its call of crawlDomain; result holds the
\* project and the Domain that ensureDomain returned
PostProjectCrawl ==
    /\ pc = "routes"
    /\ \E slug \in SlugParams, domainBody \in OptionalDomainBodies :
          LET p == projectIndex(projects, slug)
              domainInput == IF domainBody = None THEN <<>> ELSE trim(domainBody[1])
              hostname == IF domainInput # <<>> THEN Some(hostnameOf(domainInput))
                          ELSE primaryHostname(domains, projects[p].id)
          IN  IF p = 0
              THEN result' = errorResponse(404) /\ UNCHANGED <<projects, domains>>
              ELSE IF domainInput # <<>> /\ normalizeDomainThrows(domainInput)
              THEN result' = errorResponse(500) /\ UNCHANGED <<projects, domains>>
              ELSE IF hostname = None
              THEN result' = errorResponse(400) /\ UNCHANGED <<projects, domains>>
              ELSE LET ensured == ensureDomain(domains, projects[p].id, hostname[1],
                                               domainInput # <<>>)
                   IN  /\ domains' = ensured.domains
                       /\ result' = Some([kind |-> "ensured",
                                          project |-> projects[p].id,
                                          domain |-> ensured.domain])
                       /\ UNCHANGED projects
    /\ UNCHANGED <<pc, domain, maxDepth, rootUrl, rootHost, depthLimit, pages, candidate,
                   urls, queue, processed, current, res, sitemapLog, fetchLog, skipped,
                   running, other>>

NextRoutes == PostProjects \/ PostCrawl \/ PostProjectCrawl

SpecRoutes == InitRoutes /\ [][NextRoutes]_vars

(***************************************************************************)
(* The graph crawlDomain returned.                                         *)
(***************************************************************************)
Returned == pc = "done" /\ result # None /\ result[1].kind = "graph"
Nodes == result[1].nodes
Edges == result[1].edges
depthOf(path) == Len(pathSegments(path))
RootPath == <<"/">>

\* a request of the loop that failed: fetch rejected, or the response was not 2xx
Failed(entry) == entry.kind \in {"error", "notok"}

(***************************************************************************)
(* Claims.                                                                 *)
(***************************************************************************)

\* C1: in a returned graph every node below the root has exactly one edge whose
\* target is the node's id, and the source of that edge is the id of the node
\* whose path is parentPath of the node's path.
C1_OneEdgeFromParent ==
    Returned =>
        \A i \in 1..Len(Nodes) :
            depthOf(Nodes[i].path) > 0 =>
                LET inbound == {j \in 1..Len(Edges) : Edges[j].target = Nodes[i].id}
                IN  /\ Cardinality(inbound) = 1
                    /\ \A j \in inbound :
                          \E k \in 1..Len(Nodes) :
                              /\ Some(Nodes[k].path) = parentPath(Nodes[i].path)
                              /\ Edges[j].source = Nodes[k].id

\* C2: in a returned graph the node ids are pairwise distinct, and so are the
\* edge ids.
C2_UniqueIds ==
    Returned =>
        /\ \A i, j \in 1..Len(Nodes) : i # j => Nodes[i].id # Nodes[j].id
        /\ \A i, j \in 1..Len(Edges) : i # j => Edges[i].id # Edges[j].id

\* C3: in a returned graph, the root-only one included, no two nodes have the
\* same path.
C3_UniquePaths ==
    Returned => \A i, j \in 1..Len(Nodes) : i # j => Nodes[i].path # Nodes[j].path

\* C4: no orphans: for every node of a returned graph whose path has depth > 0,
\* a node whose path is parentPath of that path is in the graph too.
C4_NoOrphans ==
    Returned =>
        \A i \in 1..Len(Nodes) :
            depthOf(Nodes[i].path) > 0 =>
                \E k \in 1..Len(Nodes) : Some(Nodes[k].path) = parentPath(Nodes[i].path)

\* C4's case: the sitemap listed /a/b/c alone, no link added a page, and the graph
\* has the chain / , /a , /a/b , /a/b/c.
C4_Witness ==
    /\ Returned
    /\ {Nodes[i].path : i \in 1..Len(Nodes)} =
           { RootPath, <<"/", "a">>, <<"/", "a", "/", "b">>,
             <<"/", "a", "/", "b", "/", "c">> }
    /\ \E i \in 1..Len(Nodes) :
           /\ Nodes[i].path = <<"/", "a">>
           /\ Nodes[i].unreachable = Some(TRUE)

\* C5: every returned graph has the root node: id "root", path "/", isRoot true,
\* depth 0.
C5_RootPresent ==
    Returned =>
        \E i \in 1..Len(Nodes) :
            /\ Nodes[i].id = RootId
            /\ Nodes[i].path = RootPath
            /\ Nodes[i].isRoot = Some(TRUE)
            /\ depthOf(Nodes[i].path) = 0

\* C5's case: a graph assembled from a registry of several paths (not the
\* root-only graph).
C5_Witness == Returned /\ Len(pages) > 1 /\ Len(Nodes) = Len(pages)

\* C6: no node of a returned graph has a path deeper than the depth limit.
C6_DepthWithinLimit ==
    Returned => \A i \in 1..Len(Nodes) : depthOf(Nodes[i].path) <= depthLimit

\* C7: if the first request of the root URL fails (fetch rejects, or the response
\* is not 2xx), crawlDomain returns no graph.
C7_RootFailureIsFatal ==
    (/\ fetchLog # <<>>
     /\ fetchLog[1].path = RootPath
     /\ Failed(fetchLog[1])) => ~Returned

\* C8: whenever the request of a page other than the root has failed, the entry of
\* that page is marked unreachable, with the status code when there was a response.
C8_FailureRecorded ==
    \A i \in 1..Len(fetchLog) :
        (Failed(fetchLog[i]) /\ fetchLog[i].path # RootPath) =>
            /\ mapHas(pages, fetchLog[i].path)
            /\ mapGet(pages, fetchLog[i].path).unreachable = Some(TRUE)
            /\ fetchLog[i].kind = "notok" =>
                   mapGet(pages, fetchLog[i].path).statusCode = fetchLog[i].status

\* the entries of m and n agree in everything but statusCode and unreachable, and
\* in those too except on path
SameButFailure(m, n, path) ==
    /\ Len(m) = Len(n)
    /\ \A i \in 1..Len(m) :
          /\ m[i].path = n[i].path /\ m[i].url = n[i].url /\ m[i].title = n[i].title
          /\ m[i].path # path => m[i] = n[i]

\* C9: a failed request of a page other than the root does not end the crawl: the
\* step takes the URL off the queue and adds nothing to it, registers no page,
\* changes at most statusCode and unreachable of the failed page's entry, throws
\* nothing and leaves crawlDomain in its loop.
C9_FailureContinues ==
    [][(/\ pc = "loop"
        /\ Len(fetchLog') = Len(fetchLog) + 1
        /\ Failed(fetchLog'[Len(fetchLog')])
        /\ fetchLog'[Len(fetchLog')].path # RootPath)
       => /\ pc' = "loop"
          /\ result' = None
          /\ queue' = Tail(queue)
          /\ SameButFailure(pages, pages', fetchLog'[Len(fetchLog')].path)]_vars

\* C9's case: a graph was returned by a crawl in which the request of a page
\* other than the root failed and a later request was still made.
C9_Witness ==
    /\ Returned
    /\ \E i \in 1..Len(fetchLog) :
           /\ i < Len(fetchLog)
           /\ Failed(fetchLog[i])
           /\ fetchLog[i].path # RootPath

\* C10: until the loop is left, the registry holds at most MAX_PAGES paths.
C10_WithinBudget ==
    pc \in {"sitemap", "seed", "loop", "body"} => Len(pages) <= MAX_PAGES

\* the hosts of the site crawled: the root's host, with and without "www."
SiteHosts == {HostE, HostWww}

\* C11: no URL deeper than the depth limit is fetched or queued, and the link loop
\* registers no path deeper than the limit (an entry of such a path is left as it
\* was).
C11_NoDeepFetch ==
    [][/\ \A i \in 1..Len(fetchLog') : depthOf(fetchLog'[i].path) <= depthLimit'
       /\ \A i \in 1..Len(queue') : depthOf(cleanPath(queue'[i])) <= depthLimit'
       /\ pc = "body" =>
              \A i \in 1..Len(pages') :
                  depthOf(pages'[i].path) > depthLimit =>
                      /\ mapHas(pages, pages'[i].path)
                      /\ mapGet(pages, pages'[i].path) = pages'[i]]_vars

\* C11's case: under depth limit 2 the page of depth 2 was fetched and read, and
\* its link loop has passed over a link for its depth.
C11_Witness ==
    /\ pc = "loop"
    /\ depthLimit = 2
    /\ "depth" \in skipped
    /\ fetchLog # <<>>
    /\ fetchLog[Len(fetchLog)].kind = "ok"
    /\ depthOf(fetchLog[Len(fetchLog)].path) = 2

\* C12: every registered page, every queued URL and every URL requested by the loop
\* is on a host of the site (the root's host, with or without "www.").
C12_SameHostOnly ==
    /\ \A i \in 1..Len(pages) : pages[i].url.hostname \in SiteHosts
    /\ \A i \in 1..Len(queue) : queue[i].hostname \in SiteHosts
    /\ \A i \in 1..Len(fetchLog) : fetchLog[i].url.hostname \in SiteHosts

\* C12's case: a page was read whose link loop passed over a link for its host, and
\* registered another.
C12_Witness ==
    /\ pc = "loop"
    /\ "host" \in skipped
    /\ Len(pages) > 1
    /\ queue # <<>>

\* C13: while the body of a response is read whose final URL has host H, the
\* working host is H.
C13_RedirectHostAdopted ==
    (pc = "body" /\ res # None /\ ~UrlThrows(res[1].url)) =>
        rootHost = ParseUrl(res[1].url).hostname

\* C14: the sitemap candidates are requested in the order /sitemap.xml,
\* /sitemap_index.xml, and no candidate is requested after one that answered 2xx.
C14_FirstSuccessWins ==
    /\ \A i \in 1..Len(sitemapLog) :
           sitemapLog[i].url.pathname = <<SitemapXml, SitemapIndexXml>>[i]
    /\ \A i \in 1..Len(sitemapLog) : i < Len(sitemapLog) => sitemapLog[i].outcome # "ok"

\* C15: a sitemap request never fails crawlDomain: after it the next candidate is
\* requested or the seeds are registered, a request that failed adds no seed, and
\* after the seeding the loop starts with the root in the queue; with no seed the
\* registry is left as it was, so that the root is requested.
C15_SitemapBestEffort ==
    [][/\ pc = "sitemap" =>
              /\ result' = None
              /\ \/ pc' = "seed" /\ candidate' = candidate
                 \/ pc' = "sitemap" /\ candidate' = candidate + 1
              /\ sitemapLog'[Len(sitemapLog')].outcome # "ok" => urls' = urls
       /\ pc = "seed" =>
              /\ result' = None
              /\ pc' = "loop"
              /\ queue' = <<rootUrl>>
              /\ urls = <<>> => (pages' = pages /\ Len(pages') < MAX_PAGES)]_vars

\* C15's case: the request of /sitemap.xml was rejected, that of /sitemap_index.xml
\* answered with a non-2xx status, and the crawl is about to register no seed.
C15_Witness ==
    /\ pc = "seed"
    /\ Len(sitemapLog) = 2
    /\ sitemapLog[1].outcome = "error"
    /\ sitemapLog[2].outcome = "notok"
    /\ urls = <<>>

\* C16: when the reconciled registry holds the root alone, the graph returned is the
\* root node, the "no links found" node and the edge between them, and nothing
\* else; when it holds another path, the graph has one node per entry and no
\* "no links found" node.
C16_PlaceholderIffRootOnly ==
    Returned =>
        IF Len(pages) = 1
        THEN /\ pages[1].path = RootPath
             /\ Len(Nodes) = 2
             /\ Nodes[1].id = RootId /\ Nodes[1].isRoot = Some(TRUE)
             /\ Nodes[2].id = EmptyId /\ Nodes[2].label = NoLinksLabel
             /\ Len(Edges) = 1
             /\ Edges[1].source = RootId /\ Edges[1].target = EmptyId
        ELSE /\ Len(Nodes) = Len(pages)
             /\ \A i \in 1..Len(Nodes) :
                    /\ Nodes[i].id # EmptyId
                    /\ Nodes[i].label # NoLinksLabel
                    /\ Nodes[i].path = pages[i].path

\* C16's case: the home page was fetched and read, nothing but the root is
\* registered, and the graph is returned.
C16_Witness ==
    /\ Returned
    /\ Len(pages) = 1
    /\ Len(fetchLog) = 1
    /\ fetchLog[1].kind = "ok"

\* C17: when new URL rejects the trimmed, scheme-prefixed domain, crawlDomain is
\* rejected at once: no sitemap or page request is made and no graph is returned.
C17_InvalidDomainFails ==
    UrlThrows(prefixedOf(domain)) =>
        /\ pc \in {"start", "failed"}
        /\ sitemapLog = <<>> /\ fetchLog = <<>>
        /\ pages = <<>> /\ queue = <<>>
        /\ pc = "start" => result = None
        /\ pc = "failed" => result = Some([kind |-> "error"])

\* C17's case: crawlDomain was called with "e c" and has been rejected.
C17_Witness ==
    /\ pc = "failed"
    /\ domain = <<"e", " ", "c">>
    /\ result = Some([kind |-> "error"])

\* C18: no step removes or replaces the title an entry has, and the node of an
\* entry with a title (of at most LabelLimit characters) is labelled with it.
C18_TitleKept ==
    [][/\ \A i \in 1..Len(pages) :
              pages[i].title # None =>
                  /\ mapHas(pages', pages[i].path)
                  /\ mapGet(pages', pages[i].path).title = pages[i].title
       /\ pc' = "done" =>
              \A i \in 1..Len(pages') :
                  (pages'[i].title # None /\ Len(pages'[i].title[1]) \in 1..LabelLimit) =>
                      \E k \in 1..Len(result'[1].nodes) :
                          /\ result'[1].nodes[k].path = pages'[i].path
                          /\ result'[1].nodes[k].label = pages'[i].title[1]]_vars

WithoutWwwLabel(host) ==
    LET lower == toLowerCase(host)
    IN  IF startsWith(lower, <<"w", "w", "w", ".">>) THEN DropFirst(lower, 4) ELSE lower

\* C21: matchesHost(a, b) is true exactly when a and b, lower-cased and without one
\* leading "www." label each, are equal; "www.example.com" matches "example.com"
\* and "WWW.Example.com", and "shop.example.com" does not match "example.com".
C21_MatchesHostExact ==
    pc = "matched" =>
        /\ result[1].value = (WithoutWwwLabel(domain) = WithoutWwwLabel(rootHost))
        /\ (/\ domain = <<"w", "w", "w", ".">> \o ExampleCom
            /\ rootHost \in {ExampleCom, <<"W", "W", "W", ".">> \o ExampleComCaps})
               => result[1].value = TRUE
        /\ (/\ domain = <<"s", "h", "o", "p", ".">> \o ExampleCom
            /\ rootHost = ExampleCom)
               => result[1].value = FALSE

\* C21's case: matchesHost("www.www.example.com", "WWW.Example.com") has returned
\* false: one label was taken off the first host, not two.
C21_Witness ==
    /\ pc = "matched"
    /\ domain = <<"w", "w", "w", ".", "w", "w", "w", ".">> \o ExampleCom
    /\ rootHost = <<"W", "W", "W", ".">> \o ExampleComCaps
    /\ result[1].value = FALSE

\* C22: for every integer maxDepth the depth limit is min(max(maxDepth, 1), 5):
\* 1 for an argument below 1, 5 for one above 5, the argument itself otherwise,
\* and always in 1..5.
C22_DepthClamped ==
    pc \in {"clamped", "matched"} =>
        /\ depthLimit \in 1..5
        /\ maxDepth < 1 => depthLimit = 1
        /\ maxDepth > 5 => depthLimit = 5
        /\ maxDepth \in 1..5 => depthLimit = maxDepth

\* C22's case: the limit of the argument 7 was computed, and is 5.
C22_Witness == pc = "clamped" /\ maxDepth = 7 /\ depthLimit = 5

\* the last segment of a path below the root
LastSegment(path) == pathSegments(path)[Len(pathSegments(path))]

\* the status code of the entries the reconciliation adds
PlaceholderStatus == 404

\* C23: every entry the reconciliation adds for a missing ancestor path is marked
\* unreachable, has the last segment of its path for title, and has no status code.
C23_PlaceholderNoStatus ==
    [][(pc = "loop" /\ pc' = "done") =>
          \A i \in 1..Len(pages') :
              ~mapHas(pages, pages'[i].path) =>
                  /\ pages'[i].unreachable = Some(TRUE)
                  /\ pages'[i].title = Some(LastSegment(pages'[i].path))
                  /\ pages'[i].statusCode = None]_vars

\* C23, amended: every entry the reconciliation adds for a missing ancestor path is
\* marked unreachable, has the last segment of its path for title, and has the
\* status code 404.
C23_Placeholder404 ==
    [][(pc = "loop" /\ pc' = "done") =>
          \A i \in 1..Len(pages') :
              ~mapHas(pages, pages'[i].path) =>
                  /\ pages'[i].unreachable = Some(TRUE)
                  /\ pages'[i].title = Some(LastSegment(pages'[i].path))
                  /\ pages'[i].statusCode = Some(PlaceholderStatus)]_vars

\* C23's case: the sitemap listed /a/b/c, neither /a/b nor /a was ever requested,
\* and the reconciled registry has an entry of /a/b titled "b".
C23_Witness ==
    /\ pc = "done"
    /\ mapHas(pages, <<"/", "a", "/", "b", "/", "c">>)
    /\ mapHas(pages, <<"/", "a", "/", "b">>)
    /\ mapGet(pages, <<"/", "a", "/", "b">>).title = Some(<<"b">>)
    /\ mapGet(pages, <<"/", "a", "/", "b">>).statusCode = Some(PlaceholderStatus)
    /\ \A i \in 1..Len(fetchLog) : depthOf(fetchLog[i].path) = 0

\* C24: no path is requested twice in one crawl: a URL whose path was requested
\* before, with whatever outcome, is taken off the queue without a request.
C24_NoRefetch ==
    /\ \A i, j \in 1..Len(fetchLog) : i # j => fetchLog[i].path # fetchLog[j].path
    /\ "processed" \in skipped =>
           (pc = "loop" /\ processed = {fetchLog[i].path : i \in 1..Len(fetchLog)})

\* C24's case: the home page linked to /a/b twice, the request of /a/b failed, and
\* the second URL of /a/b was taken off the queue without a request.
C24_Witness ==
    /\ pc = "loop"
    /\ "processed" \in skipped
    /\ Len(fetchLog) = 2
    /\ fetchLog[2].path = <<"/", "a", "/", "b">>
    /\ Failed(fetchLog[2])
    /\ queue = <<>>
    /\ Len(pages) = 2

\* C25: once the body of a 2xx response is read, the entry of the page has the
\* status of the response, the title of the page when it has one, and is not marked
\* unreachable; and so has the node of the page in the graph returned.
C25_SuccessRecorded ==
    [][/\ (pc = "body" /\ fetchLog' = fetchLog) =>
              LET path == cleanPath(current[1])
              IN  /\ mapHas(pages', path)
                  /\ mapGet(pages', path).statusCode = Some(res[1].status)
                  /\ mapGet(pages', path).title \in TitlesOf(current[1])
                  /\ mapGet(pages', path).unreachable # Some(TRUE)
       /\ (pc = "loop" /\ pc' = "done") =>
              \A i \in 1..Len(fetchLog) :
                  fetchLog[i].kind = "ok" =>
                      \E k \in 1..Len(result'[1].nodes) :
                          LET node == result'[1].nodes[k]
                              info == mapGet(pages, fetchLog[i].path)
                          IN  /\ node.path = fetchLog[i].path
                              /\ node.statusCode = fetchLog[i].status
                              /\ node.unreachable # Some(TRUE)
                              /\ info.title # None => node.label = info.title[1]]_vars

\* the URLs a step has appended to the queue
Appended(before, after) == SubSeq(after, Len(before) + 1, Len(after))

\* C26: the link loop of a fetched page appends to the queue only links on the
\* site's host, no deeper than the limit, within the budget, and registers them;
\* and it appends no link whose path is registered already, seeded by the sitemap
\* or found earlier.
C26_LinkEnqueuedOnce ==
    [][pc = "body" =>
          LET added == Appended(queue, queue')
          IN  /\ SubSeq(queue', 1, Len(queue)) = queue
              /\ added # <<>> => Len(pages') <= MAX_PAGES
              /\ \A i \in 1..Len(added) :
                     /\ added[i].hostname \in SiteHosts
                     /\ depthOf(cleanPath(added[i])) <= depthLimit
                     /\ mapHas(pages', cleanPath(added[i]))
                     /\ ~mapHas(pages, cleanPath(added[i]))
                     /\ \A j \in 1..Len(added) :
                            i # j => cleanPath(added[i]) # cleanPath(added[j])]_vars

\* C26, amended: the link loop of a fetched page appends to the queue only links on
\* the site's host, no deeper than the limit, within the budget, and registers
\* them; a link whose path is registered already is appended like any other.
C26_LinkEnqueuedIfAllowed ==
    [][pc = "body" =>
          LET added == Appended(queue, queue')
          IN  /\ SubSeq(queue', 1, Len(queue)) = queue
              /\ added # <<>> => Len(pages') <= MAX_PAGES
              /\ \A i \in 1..Len(added) :
                     /\ added[i].hostname \in SiteHosts
                     /\ depthOf(cleanPath(added[i])) <= depthLimit
                     /\ mapHas(pages', cleanPath(added[i]))]_vars

\* C26's case: the home page was read, its link loop registered /a/b and appended
\* both links to it: the queue holds two URLs of one path.
C26_Witness ==
    /\ pc = "loop"
    /\ Len(fetchLog) = 1
    /\ mapKeys(pages) = <<RootPath, <<"/", "a", "/", "b">>>>
    /\ Len(queue) = 2
    /\ cleanPath(queue[1]) = <<"/", "a", "/", "b">>
    /\ cleanPath(queue[2]) = <<"/", "a", "/", "b">>

\* C27: when every request completes, crawlDomain ends: it returns a graph, the
\* loop having been left on an empty queue or a full registry, whatever the pages
\* link to; it is rejected only for a domain that new URL rejects.
C27_Terminates ==
    /\ [][StartEnds \/ SitemapRequestEnds \/ SeedEnds \/ LoopIterates \/ BodyEnds]_vars
    /\ <>(IF UrlThrows(prefixedOf(domain))
          THEN pc = "failed"
          ELSE Returned /\ (queue = <<>> \/ Len(pages) >= MAX_PAGES))

\* C27's case: the loop was left for the budget with a URL still in the queue, and
\* the graph was returned.
C27_Witness ==
    /\ Returned
    /\ queue # <<>>
    /\ Len(fetchLog) >= 1
    /\ Len(pages) >= MAX_PAGES

\* C28: when crawlDomain returns a graph, the loop has requested the root URL, and
\* before any other page.
C28_RootFetchedFirst ==
    /\ fetchLog # <<>> => fetchLog[1].url = rootUrl
    /\ Returned => fetchLog # <<>>

\* C29: while the loop runs, the path of every URL in the queue and every path in
\* the processed set is a key of the registry; so the entry of a page whose request
\* was answered with a non-2xx status exists, and has that status and the mark
\* unreachable.
C29_QueuedAreRegistered ==
    /\ pc \in {"loop", "body"} =>
           /\ \A i \in 1..Len(queue) : mapHas(pages, cleanPath(queue[i]))
           /\ \A path \in processed : mapHas(pages, path)
    /\ \A i \in 1..Len(fetchLog) :
           fetchLog[i].kind = "notok" =>
               /\ mapHas(pages, fetchLog[i].path)
               /\ mapGet(pages, fetchLog[i].path).statusCode = fetchLog[i].status
               /\ mapGet(pages, fetchLog[i].path).unreachable = Some(TRUE)

\* C29's case: the home page linked to https://www.e.c/a-b/ and to /a/b; the
\* request of /a-b was answered with 404, which its entry shows, and /a/b waits in
\* the queue.
C29_Witness ==
    /\ pc = "loop"
    /\ Len(fetchLog) = 2
    /\ fetchLog[2].path = <<"/", "a", "-", "b">>
    /\ fetchLog[2].kind = "notok"
    /\ mapGet(pages, <<"/", "a", "-", "b">>).statusCode = Some(404)
    /\ processed = {RootPath, <<"/", "a", "-", "b">>}
    /\ Len(queue) = 1
    /\ cleanPath(queue[1]) = <<"/", "a", "/", "b">>

\* the rows of table domains that belong to the project and have isPrimary set
primaryRows(projectId) ==
    {i \in 1..Len(domains) :
        domains[i].projectId = projectId /\ Boolean(domains[i].isPrimary)}

\* C30: after any sequence of requests to the project-creation and crawl routes, every
\* project has at most one domain row with isPrimary set, and the Domain that
\* ensureDomain returned last reports the isPrimary stored in its row.
C30_OnePrimaryDomain ==
    /\ \A p \in 1..Len(projects) : Cardinality(primaryRows(projects[p].id)) <= 1
    /\ (result # None /\ result[1].kind = "ensured") =>
           \E i \in 1..Len(domains) :
               /\ domains[i].id = result[1].domain.id
               /\ Boolean(domains[i].isPrimary) = result[1].domain.isPrimary

====
